---- MODULE Spec2Model ----
(***************************************************************************)
(* Wallet ledger and disbursement engine of spend-sense_backend.           *)
(*                                                                         *)
(* The store (wallet, plan and transaction tables) is shared by request    *)
(* workers and celery workers.  Every ORM call of the source is one step   *)
(* of a process; python statements between two ORM calls belong to the     *)
(* step that follows them.  Money is counted in hundredths (two decimal    *)
(* places of the DecimalFields, the gateway's minor unit); time in days.   *)
(***************************************************************************)
EXTENDS Integers, Sequences, FiniteSets, TLC

\* ------------------------------------------------------------- bounds
NumProcs == 2          \* requests / task runs in one behaviour, numbered in start order
MaxNow == 1            \* the clock runs from day 0 to this day

\* ---------------------------------------------------- program constants
Day == 1               \* timezone.timedelta(days=1)
Week == 7              \* timezone.timedelta(weeks=1)

\* ------------------------------------------------------------- inputs
Users == {"ada", "bob"}
NoUser == "nobody"
Procs == 1..NumProcs
UserRefs == {<<"R", 1>>}        \* references supplied by clients
NoRef == <<"none", 0>>
DisbRef(k) == <<"DISB", k>>                \* f"DISB-{uuid.uuid4().hex[:10]}"
\* uuid4().hex[:10] is 40 random bits: a token not drawn before, or one that
\* was (which of those makes no difference to the insert: the latest stands
\* for them)
Tokens(drawn) == {drawn, drawn + 1} \ {0}
FundAmounts == {-1, 2}                     \* any decimal passes DecimalField
GatewayAmounts == {2}                      \* data['amount'] of a verified payment
GatewayReplies == {"raised", "status_false", "not_success", "success"}
InitiateForms == {"missing", "invalid", "valid"}   \* request.data.get("amount")
InitiateReplies == {"raised", "rejected", "accepted"}
PlanTypes == {"daily", "weekly"}
PlanAmounts == {-1}                        \* any decimal passes DecimalField
PlanDates == {0}                           \* any datetime passes DateTimeField

VARIABLES
    wallets,        \* Wallet table: user -> row
    plans,          \* DisbursementPlan table: user -> row
    transactions,   \* Transaction table: set of rows
    nextId,         \* Transaction primary key sequence
    uuidCount,      \* number of distinct uuid4 tokens drawn so far
    clock,          \* timezone.now()
    pc,             \* position of each request / task run
    req,            \* its input
    wmem,           \* the Wallet instance it holds in memory
    pmem,           \* the DisbursementPlan instances it holds in memory
    queue,          \* users whose plan the task run has still to visit
    result,         \* its outcome
    pre,            \* the store as it was when the latest one started, while it runs
    log,            \* what it did to the store
    started,        \* number of requests / task runs started
    initial         \* the Wallet table before the first request / task run

vars == <<wallets, plans, transactions, nextId, uuidCount, clock, pc, req,
          wmem, pmem, queue, result, pre, log, started, initial>>

store == <<wallets, plans, transactions, nextId, uuidCount>>

\* ------------------------------------------------------------ the store
NoWalletRow == [exists |-> FALSE, balance |-> 0, locked_balance |-> 0]
WalletRow(b, l) == [exists |-> TRUE, balance |-> b, locked_balance |-> l]

NoPlanRow == [exists |-> FALSE, plan_type |-> "daily", amount_per_disbursement |-> 0,
              active |-> FALSE, next_disbursement |-> 0]
PlanRow(t, a, act, nd) == [exists |-> TRUE, plan_type |-> t, amount_per_disbursement |-> a,
                           active |-> act, next_disbursement |-> nd]

TransactionRow(id, u, t, a, r, s) ==
    [id |-> id, user |-> u, tx_type |-> t, amount |-> a, reference |-> r, status |-> s]

\* Wallet instance in memory.  numtype is the python type of its balance:
\* a row read from the table carries Decimal, a row just created by
\* get_or_create carries the field default 0.00, a float.
NoInstance == [user |-> NoUser, balance |-> 0, locked_balance |-> 0, numtype |-> "Decimal"]
WalletInstance(u, row, created) ==
    [user |-> u, balance |-> row.balance, locked_balance |-> row.locked_balance,
     numtype |-> IF created THEN "float" ELSE "Decimal"]

NoRequest == [op |-> "none", user |-> NoUser, amount |-> 0, ref |-> NoRef, now |-> 0,
              with |-> {}, reply |-> "none", kobo |-> 0]
NoPlans == [u \in Users |-> NoPlanRow]
NoLog == [saved |-> {}, inserted |-> {}, disbursed |-> {}, advanced |-> {}, skipped |-> {}]

Snapshot == [wallets |-> wallets, plans |-> plans, transactions |-> transactions]
NoSnapshot == [wallets |-> [u \in Users |-> NoWalletRow], plans |-> NoPlans,
               transactions |-> {}]

\* Transaction.reference is unique = True: the table refuses a second row
\* with a reference it already holds.
ReferenceTaken(txs, r) == \E t \in txs : t.reference = r

\* (mutant) the existence check left out
validate_reference_skipped(txs, value) == TRUE

\* WalletFundSerializer.validate_reference
validate_reference(txs, value) == ~(\E t \in txs : t.reference = value)

\* python's +: Decimal and float do not add
CanAdd(numtype, amounttype) == numtype = amounttype

\* ------------------------------------------------------------------ Init
\* What the admin site has set up for a user before the behaviour starts:
\* a wallet or none (locked funds come from the admin site alone), a plan or
\* none (the plan view cannot create one).
InitAccounts ==
    { [wallet |-> NoWalletRow,     plan |-> NoPlanRow],
      [wallet |-> NoWalletRow,     plan |-> PlanRow("daily", 2, TRUE, 0)],
      [wallet |-> WalletRow(0, 3), plan |-> PlanRow("daily", 2, TRUE, 0)],
      [wallet |-> WalletRow(0, 0), plan |-> PlanRow("weekly", 2, TRUE, 0)] }

Init ==
    /\ \E acc \in [Users -> InitAccounts] :
          /\ wallets = [u \in Users |-> acc[u].wallet]
          /\ plans = [u \in Users |-> acc[u].plan]
          /\ initial = [u \in Users |-> acc[u].wallet]
    /\ transactions = {}
    /\ nextId = 1
    /\ uuidCount = 0
    /\ clock = 0
    /\ pc = [p \in Procs |-> "idle"]
    /\ req = [p \in Procs |-> NoRequest]
    /\ wmem = [p \in Procs |-> NoInstance]
    /\ pmem = [p \in Procs |-> NoPlans]
    /\ queue = [p \in Procs |-> {}]
    /\ result = [p \in Procs |-> "none"]
    /\ pre = NoSnapshot
    /\ log = [p \in Procs |-> NoLog]
    /\ started = 0

\* ------------------------------------------------------------- helpers
\* A request or task run starts: processes are numbered in start order.
Begin(p, r) ==
    /\ pc[p] = "idle"
    /\ p = started + 1
    /\ started' = started + 1
    /\ req' = [req EXCEPT ![p] = r]

\* its input, the time, and the processes under way when it starts
Request(op, u, a, r) ==
    [op |-> op, user |-> u, amount |-> a, ref |-> r, now |-> clock,
     with |-> {q \in Procs : pc[q] \notin {"idle", "done"}}, reply |-> "none", kobo |-> 0]

\* It goes on to its next ORM call.
Goto(p, label) ==
    /\ pc' = [pc EXCEPT ![p] = label]
    /\ UNCHANGED result

\* It ends, with a response or an exception; its instances are dropped.
Return(p, res) ==
    /\ pc' = [pc EXCEPT ![p] = "done"]
    /\ result' = [result EXCEPT ![p] = res]
    /\ wmem' = [wmem EXCEPT ![p] = NoInstance]
    /\ pmem' = [pmem EXCEPT ![p] = NoPlans]
    /\ queue' = [queue EXCEPT ![p] = {}]

Forget(p) == pre' = IF p = started THEN NoSnapshot ELSE pre

\* (mutant) create in place of get_or_create: the row is written anew
Wallet_create_always(ws, u) ==
    [wallets |-> [ws EXCEPT ![u] = WalletRow(0, 0)],
     instance |-> WalletInstance(u, WalletRow(0, 0), TRUE)]

\* Wallet.objects.get_or_create(user = user): the row if there is one, else a
\* new row with the field defaults; the instance returned for a new row is the
\* one built in memory, not one read back.
Wallet_get_or_create(ws, u) ==
    IF ws[u].exists
    THEN [wallets |-> ws, instance |-> WalletInstance(u, ws[u], FALSE)]
    ELSE [wallets |-> [ws EXCEPT ![u] = WalletRow(0, 0)],
          instance |-> WalletInstance(u, WalletRow(0, 0), TRUE)]

\* wallet.save(): UPDATE of every column of the row from the instance
Wallet_save(ws, inst) ==
    [ws EXCEPT ![inst.user] = WalletRow(inst.balance, inst.locked_balance)]

\* (mutant) reference declared without unique = True
Transaction_create_unconstrained(txs, r) == TRUE

\* Transaction.objects.create(...): the row is inserted unless the unique
\* constraint on reference refuses it (IntegrityError).
Transaction_create_ok(txs, r) == ~ReferenceTaken(txs, r)

\* (mutant) the division by 100 left out
FromKobo_unconverted(k) == k * 100

\* amount = data['amount'] / 100: minor units to the ledger's unit, which the
\* DecimalField then stores with two places, i.e. in hundredths
FromKobo(k) == (k * 100) \div 100

\* ------------------------------------------- FundWalletView.post (fund)
\* serializer.is_valid(): amount is any decimal, reference must be unused
FundValidate(p, u, a, r) ==
    /\ Begin(p, Request("fund", u, a, r))
    /\ IF validate_reference(transactions, r)
       THEN /\ Goto(p, "fund_get_wallet")
            /\ pre' = Snapshot
            /\ UNCHANGED <<wmem, pmem, queue>>
       ELSE /\ Return(p, "400 reference used")
            /\ pre' = NoSnapshot
    /\ UNCHANGED <<store, clock, initial, log>>

\* wallet, created = Wallet.objects.get_or_create(user = user)
FundGetWallet(p) ==
    /\ pc[p] = "fund_get_wallet"
    /\ LET g == Wallet_get_or_create(wallets, req[p].user) IN
         /\ wallets' = g.wallets
         /\ wmem' = [wmem EXCEPT ![p] = g.instance]
    /\ Goto(p, "fund_save")
    /\ UNCHANGED <<plans, transactions, nextId, uuidCount, clock, initial, req, pmem, queue,
                   pre, log, started>>

\* wallet.balance += amount; wallet.save()     (amount is a Decimal)
FundSave(p) ==
    /\ pc[p] = "fund_save"
    /\ IF CanAdd(wmem[p].numtype, "Decimal")
       THEN LET w == [wmem[p] EXCEPT !.balance = @ + req[p].amount] IN
              /\ wmem' = [wmem EXCEPT ![p] = w]
              /\ wallets' = Wallet_save(wallets, w)
              /\ log' = [log EXCEPT ![p].saved = @ \cup {w.user}]
              /\ Goto(p, "fund_create_tx")
              /\ UNCHANGED <<pmem, queue, pre>>
       ELSE /\ Return(p, "500 TypeError")
            /\ Forget(p)
            /\ UNCHANGED <<wallets, log>>
    /\ UNCHANGED <<plans, transactions, nextId, uuidCount, clock, initial, req, started>>

\* Transaction.objects.create(user, tx_type = 'fund', amount, reference, status)
FundCreateTx(p) ==
    /\ pc[p] = "fund_create_tx"
    /\ IF Transaction_create_ok(transactions, req[p].ref)
       THEN /\ transactions' = transactions \cup
                   {TransactionRow(nextId, req[p].user, "fund", req[p].amount,
                                   req[p].ref, "success")}
            /\ nextId' = nextId + 1
            /\ log' = [log EXCEPT ![p].inserted = @ \cup {nextId}]
            /\ Return(p, "200")
       ELSE /\ Return(p, "500 IntegrityError")
            /\ UNCHANGED <<transactions, nextId, log>>
    /\ Forget(p)
    /\ UNCHANGED <<wallets, plans, uuidCount, clock, initial, req, started>>

\* --------------------------------- VerifyPaystackPaymentView.post (confirm)
\* (mutant) the two checks of the gateway's reply left out
GatewaySuccess_unchecked(reply) == reply # "raised"

\* response.get("status") is true and data.get("status") == "success"
GatewaySuccess(reply) == reply = "success"

\* what the view answers to a reply that is no success; an exception of
\* requests.get in verify_payment is not caught
GatewayError(reply) == IF reply = "raised" THEN "500 RequestException" ELSE "400 " \o reply

\* response = verify_payment(reference), and the two checks of the reply
ConfirmVerify(p, u, r, reply, kobo) ==
    /\ Begin(p, [Request("confirm", u, FromKobo(kobo), r) EXCEPT !.reply = reply,
                                                                 !.kobo = kobo])
    /\ IF GatewaySuccess(reply)
       THEN /\ Goto(p, "confirm_get_wallet")
            /\ pre' = Snapshot
            /\ UNCHANGED <<wmem, pmem, queue>>
       ELSE /\ Return(p, GatewayError(reply))
            /\ pre' = NoSnapshot
    /\ UNCHANGED <<store, clock, initial, log>>

\* wallet, _ = Wallet.objects.get_or_create(user=user)
ConfirmGetWallet(p) ==
    /\ pc[p] = "confirm_get_wallet"
    /\ LET g == Wallet_get_or_create(wallets, req[p].user) IN
         /\ wallets' = g.wallets
         /\ wmem' = [wmem EXCEPT ![p] = g.instance]
    /\ Goto(p, "confirm_save")
    /\ UNCHANGED <<plans, transactions, nextId, uuidCount, clock, initial, req, pmem, queue,
                   pre, log, started>>

\* wallet.balance += amount; wallet.save()     (amount is a float)
ConfirmSave(p) ==
    /\ pc[p] = "confirm_save"
    /\ IF CanAdd(wmem[p].numtype, "float")
       THEN LET w == [wmem[p] EXCEPT !.balance = @ + req[p].amount] IN
              /\ wmem' = [wmem EXCEPT ![p] = w]
              /\ wallets' = Wallet_save(wallets, w)
              /\ log' = [log EXCEPT ![p].saved = @ \cup {w.user}]
              /\ Goto(p, "confirm_get_or_create_tx")
              /\ UNCHANGED <<pmem, queue, pre>>
       ELSE /\ Return(p, "500 TypeError")
            /\ Forget(p)
            /\ UNCHANGED <<wallets, log>>
    /\ UNCHANGED <<plans, transactions, nextId, uuidCount, clock, initial, req, started>>

\* the rows Transaction.objects.get_or_create looks up
Transaction_lookup(txs, u, t, a, r) ==
    {x \in txs : x.user = u /\ x.tx_type = t /\ x.amount = a /\ x.reference = r}

\* (mutant) update_or_create: the row found is rewritten with the defaults
Transaction_found_rewritten(txs, found) ==
    (txs \ found) \cup {[x EXCEPT !.status = "confirmed"] : x \in found}

\* the table after get_or_create has found a row: it is returned as it is
Transaction_found(txs, found) == txs

\* Transaction.objects.get_or_create(user, tx_type='fund', amount, reference,
\*                                   defaults={"status": "success"})
\* looks the row up by user, type, amount and reference, and creates it when
\* there is none; the create fails on a reference another row holds.
ConfirmGetOrCreateTx(p) ==
    /\ pc[p] = "confirm_get_or_create_tx"
    /\ IF Transaction_lookup(transactions, req[p].user, "fund", req[p].amount, req[p].ref) # {}
       THEN /\ transactions' = Transaction_found(transactions,
                   Transaction_lookup(transactions, req[p].user, "fund", req[p].amount, req[p].ref))
            /\ Return(p, "200")
            /\ UNCHANGED <<nextId, log>>
       ELSE IF Transaction_create_ok(transactions, req[p].ref)
       THEN /\ transactions' = transactions \cup
                   {TransactionRow(nextId, req[p].user, "fund", req[p].amount,
                                   req[p].ref, "success")}
            /\ nextId' = nextId + 1
            /\ log' = [log EXCEPT ![p].inserted = @ \cup {nextId}]
            /\ Return(p, "200")
       ELSE /\ Return(p, "500 IntegrityError")
            /\ UNCHANGED <<transactions, nextId, log>>
    /\ Forget(p)
    /\ UNCHANGED <<wallets, plans, uuidCount, clock, initial, req, started>>

\* ------------------------- InitializePaystackPaymentView.post (initiate)
\* what the view answers: the two checks of the amount, then the gateway's
\* reply to initialize_payment, any exception of which is caught
InitiateResponse(form, reply) ==
    IF form = "missing" THEN "400 amount required"
    ELSE IF form = "invalid" THEN "400 invalid amount"
    ELSE IF reply = "raised" THEN "500 Exception"
    ELSE IF reply = "rejected" THEN "400 rejected"
    ELSE "200"

\* (mutant) the view records a pending 'fund' transaction for the reference
InitiateLedger_pending(txs, id, u) ==
    txs \cup {TransactionRow(id, u, "fund", 0, <<"INIT", id>>, "pending")}

\* the Transaction table after the view: it makes no ORM call
InitiateLedger(txs, id, u) == txs

\* the whole view: reference = str(uuid.uuid4()), initialize_payment(...)
InitiatePayment(p, u, form, reply) ==
    /\ Begin(p, [Request("initiate", u, 0, NoRef) EXCEPT
                   !.reply = IF form = "valid" THEN reply ELSE form])
    /\ transactions' = InitiateLedger(transactions, nextId, u)
    /\ Return(p, InitiateResponse(form, reply))
    /\ pre' = NoSnapshot
    /\ UNCHANGED <<wallets, plans, nextId, uuidCount, clock, initial, log>>

\* ------------------------------------------------ process_disbursements
\* (mutant) the filter without next_disbursement__lte = now
DuePlans_any_date(pl, now) == {u \in Users : pl[u].exists /\ pl[u].active}

\* (mutant) the filter without active = True
DuePlans_inactive_too(pl, now) ==
    {u \in Users : pl[u].exists /\ pl[u].next_disbursement <= now}

\* DisbursementPlan.objects.filter(active = True, next_disbursement__lte = now)
DuePlans(pl, now) ==
    {u \in Users : pl[u].exists /\ pl[u].active /\ pl[u].next_disbursement <= now}

\* (mutant) the funds check left out
Insufficient_never(w, plan) == FALSE

\* if wallet.locked_balance < plan.amount_per_disbursement: continue
Insufficient(w, plan) == w.locked_balance < plan.amount_per_disbursement

\* (mutant) the balance credited without the locked balance debited
Disburse_credit_only(inst, amount) == [inst EXCEPT !.balance = @ + amount]

\* wallet.locked_balance -= amount; wallet.balance += amount
Disburse(inst, amount) ==
    [inst EXCEPT !.locked_balance = @ - amount, !.balance = @ + amount]

\* (mutant) the two branches of the advance swapped
Advance_swapped(plan) ==
    IF plan.plan_type = "daily"
    THEN [plan EXCEPT !.next_disbursement = @ + Week]
    ELSE [plan EXCEPT !.next_disbursement = @ + Day]

\* plan.next_disbursement += timedelta(days=1) / timedelta(weeks=1)
Advance(plan) ==
    IF plan.plan_type = "daily"
    THEN [plan EXCEPT !.next_disbursement = @ + Day]
    ELSE IF plan.plan_type = "weekly"
    THEN [plan EXCEPT !.next_disbursement = @ + Week]
    ELSE plan

\* now = timezone.now(); the queryset is read once, when the loop starts
RunStart(p) ==
    /\ Begin(p, Request("run", NoUser, 0, NoRef))
    /\ pmem' = [pmem EXCEPT ![p] = plans]
    /\ queue' = [queue EXCEPT ![p] = DuePlans(plans, clock)]
    /\ Goto(p, "run_next")
    /\ pre' = Snapshot
    /\ UNCHANGED <<store, clock, initial, wmem, log>>

\* the next plan of the loop, in no specified order:
\* wallet = Wallet.objects.get(user = plan.user), then the funds check
RunGetWallet(p) ==
    /\ pc[p] = "run_next"
    /\ \E u \in queue[p] :
         IF ~wallets[u].exists
         THEN /\ Return(p, "raised DoesNotExist")
              /\ Forget(p)
              /\ UNCHANGED log
         ELSE /\ queue' = [queue EXCEPT ![p] = @ \ {u}]
              /\ wmem' = [wmem EXCEPT ![p] = WalletInstance(u, wallets[u], FALSE)]
              /\ Goto(p, IF Insufficient(wallets[u], pmem[p][u])
                         THEN "run_next" ELSE "run_save_wallet")
              /\ log' = IF Insufficient(wallets[u], pmem[p][u])
                        THEN [log EXCEPT ![p].skipped = @ \cup {u}]
                        ELSE log
              /\ UNCHANGED <<pmem, pre>>
    /\ UNCHANGED <<store, clock, initial, req, started>>

\* wallet.locked_balance -= ...; wallet.balance += ...; wallet.save()
RunSaveWallet(p) ==
    /\ pc[p] = "run_save_wallet"
    /\ LET w == Disburse(wmem[p], pmem[p][wmem[p].user].amount_per_disbursement) IN
         /\ wmem' = [wmem EXCEPT ![p] = w]
         /\ wallets' = Wallet_save(wallets, w)
         /\ log' = [log EXCEPT ![p].saved = @ \cup {w.user},
                                ![p].disbursed = @ \cup
                                   {<<w.user, pmem[p][w.user].next_disbursement>>}]
    /\ Goto(p, "run_create_tx")
    /\ UNCHANGED <<plans, transactions, nextId, uuidCount, clock, initial, req, pmem, queue,
                   pre, started>>

\* Transaction.objects.create(user, tx_type = 'disburse', amount,
\*                            reference = f"DISB-{uuid.uuid4().hex[:10]}", status)
RunCreateTx(p) ==
    /\ pc[p] = "run_create_tx"
    /\ \E k \in Tokens(uuidCount) :
         LET u == wmem[p].user
             r == DisbRef(k) IN
           /\ IF Transaction_create_ok(transactions, r)
              THEN /\ transactions' = transactions \cup
                          {TransactionRow(nextId, u, "disburse",
                                          pmem[p][u].amount_per_disbursement, r, "success")}
                   /\ nextId' = nextId + 1
                   /\ log' = [log EXCEPT ![p].inserted = @ \cup {nextId}]
                   /\ Goto(p, "run_save_plan")
                   /\ UNCHANGED <<wmem, pmem, queue, pre>>
              ELSE /\ Return(p, "raised IntegrityError")
                   /\ Forget(p)
                   /\ UNCHANGED <<transactions, nextId, log>>
           /\ uuidCount' = IF k > uuidCount THEN k ELSE uuidCount
    /\ UNCHANGED <<wallets, plans, clock, initial, req, started>>

\* plan.next_disbursement += ...; plan.save(): UPDATE of every column of the
\* plan's row from the instance the queryset returned
RunSavePlan(p) ==
    /\ pc[p] = "run_save_plan"
    /\ LET u == wmem[p].user
           plan == Advance(pmem[p][u]) IN
         /\ pmem' = [pmem EXCEPT ![p][u] = plan]
         /\ plans' = [plans EXCEPT ![u] = plan]
         /\ log' = [log EXCEPT ![p].advanced = @ \cup {<<u, pmem[p][u].next_disbursement>>}]
    /\ Goto(p, "run_next")
    /\ UNCHANGED <<wallets, transactions, nextId, uuidCount, clock, initial, req, wmem, queue,
                   pre, started>>

\* the loop is over
RunEnd(p) ==
    /\ pc[p] = "run_next"
    /\ queue[p] = {}
    /\ Return(p, "ok")
    /\ Forget(p)
    /\ UNCHANGED <<store, clock, initial, req, log, started>>

\* ------------------------------------- DisbursementPlanView (plan update)
\* what a PATCH of one field makes of the instance; the serializer takes any
\* decimal, any datetime, either flag and the two plan types
Patches(row) ==
    {[row EXCEPT !.amount_per_disbursement = a] : a \in PlanAmounts}
    \cup {[row EXCEPT !.plan_type = t] : t \in PlanTypes}
    \cup {[row EXCEPT !.active = b] : b \in {FALSE}}
    \cup {[row EXCEPT !.next_disbursement = n] : n \in PlanDates}

\* get_object(): DisbursementPlan.objects.get_or_create(user = request.user);
\* a missing plan cannot be created, its amounts and date have no default
PlanGet(p, u, new) ==
    /\ Begin(p, Request("plan", u, 0, NoRef))
    /\ IF plans[u].exists
       THEN /\ new \in Patches(plans[u])
            /\ pmem' = [pmem EXCEPT ![p][u] = new]
            /\ Goto(p, "plan_save")
            /\ pre' = Snapshot
            /\ UNCHANGED <<wmem, queue>>
       ELSE /\ new = NoPlanRow
            /\ Return(p, "500 IntegrityError")
            /\ pre' = NoSnapshot
    /\ UNCHANGED <<store, clock, initial, log>>

\* serializer.save(): UPDATE of every column of the plan's row
PlanSave(p) ==
    /\ pc[p] = "plan_save"
    /\ plans' = [plans EXCEPT ![req[p].user] = pmem[p][req[p].user]]
    /\ Return(p, "200")
    /\ Forget(p)
    /\ UNCHANGED <<wallets, transactions, nextId, uuidCount, clock, initial, req, log, started>>

\* ---------------------------------------------------------------- time
Tick ==
    /\ clock < MaxNow
    /\ clock' = clock + 1
    /\ UNCHANGED <<store, pc, req, wmem, pmem, queue, result, pre, log, started, initial>>

\* ------------------------------------------------------------ admin site
\* WalletAdmin: the admin site is where locked funds come from; between two
\* requests or task runs an administrator sets the locked_balance of a wallet
LockFunds(u) ==
    /\ \A p \in Procs : pc[p] \in {"idle", "done"}
    /\ wallets[u].exists
    /\ wallets[u].locked_balance < 3
    /\ wallets' = [wallets EXCEPT ![u].locked_balance = 3]
    /\ UNCHANGED <<plans, transactions, nextId, uuidCount, clock, initial, pc, req, wmem,
                   pmem, queue, result, pre, log, started>>

\* ------------------------------------------------------- specifications
PlanInputs(u) == IF plans[u].exists THEN Patches(plans[u]) ELSE {NoPlanRow}

Step(p) ==
    \/ \E u \in Users, a \in FundAmounts, r \in UserRefs : FundValidate(p, u, a, r)
    \/ FundGetWallet(p)
    \/ FundSave(p)
    \/ FundCreateTx(p)
    \/ \E u \in Users, r \in UserRefs, reply \in GatewayReplies, k \in GatewayAmounts :
          ConfirmVerify(p, u, r, reply, k)
    \/ ConfirmGetWallet(p)
    \/ ConfirmSave(p)
    \/ ConfirmGetOrCreateTx(p)
    \/ RunStart(p)
    \/ RunGetWallet(p)
    \/ RunSaveWallet(p)
    \/ RunCreateTx(p)
    \/ RunSavePlan(p)
    \/ RunEnd(p)
    \/ \E u \in Users : \E new \in PlanInputs(u) : PlanGet(p, u, new)
    \/ PlanSave(p)
    \/ \E u \in Users, form \in InitiateForms, reply \in InitiateReplies :
          (form = "valid" \/ reply = "raised") /\ InitiatePayment(p, u, form, reply)

\* the steps of the periodic task alone
SchedStep(p) ==
    \/ RunStart(p)
    \/ RunGetWallet(p)
    \/ RunSaveWallet(p)
    \/ RunCreateTx(p)
    \/ RunSavePlan(p)
    \/ RunEnd(p)

\* workers run concurrently: any process takes its next step
Next ==
    \/ \E p \in Procs : Step(p)
    \/ Tick

Spec == Init /\ [][Next]_vars

\* one request or task run at a time: a process steps only while no other
\* is under way
Alone(p) == \A q \in Procs \ {p} : pc[q] \in {"idle", "done"}

SeqNext ==
    \/ \E p \in Procs : Alone(p) /\ Step(p)
    \/ Tick

SeqSpec == Init /\ [][SeqNext]_vars

\* runs of the periodic task alone, on concurrent celery workers
SchedNext ==
    \/ \E p \in Procs : SchedStep(p)
    \/ Tick

SchedSpec == Init /\ [][SchedNext]_vars

\* runs of the periodic task one after another, the admin site locking funds
\* between them
RetryNext ==
    \/ \E p \in Procs : Alone(p) /\ SchedStep(p)
    \/ \E u \in Users : LockFunds(u)
    \/ Tick

RetrySpec == Init /\ [][RetryNext]_vars

\* ================================================================ claims
IsFinished(p) == pc[p] = "done"
Verified(p) == req[p].op = "confirm" /\ req[p].reply = "success"
FundTxs(r) == {t \in transactions : t.reference = r /\ t.tx_type = "fund"}

\* C1: in every reachable state every wallet has balance >= 0 and
\* locked_balance >= 0.
C1_NonNegativeBalances ==
    \A u \in Users : wallets[u].balance >= 0 /\ wallets[u].locked_balance >= 0

\* C2: when the same user has confirmed the same gateway-verified reference
\* twice, one after the other, exactly one fund transaction with that
\* reference exists and the second call wrote no wallet.
C2_ConfirmTwiceCreditsOnce ==
    \A p, q \in Procs :
        (/\ p < q /\ IsFinished(p) /\ IsFinished(q)
         /\ Verified(p) /\ Verified(q)
         /\ req[p].user = req[q].user /\ req[p].ref = req[q].ref)
        => /\ Cardinality(FundTxs(req[p].ref)) = 1
           /\ log[p].saved = {req[p].user}
           /\ log[q].saved = {}

\* C3: no two stored transactions share a reference.
C3_UniqueReferences ==
    \A t1, t2 \in transactions : t1.reference = t2.reference => t1 = t2

\* C3 witness: an insert of a reference the table already holds was refused.
C3_Witness ==
    \E p \in Procs :
        /\ req[p].op \in {"fund", "confirm"}
        /\ result[p] = "500 IntegrityError"
        /\ \E t \in transactions : t.reference = req[p].ref /\ t.id \notin log[p].inserted

\* C4: a fund call made after a fund call of the same owner with the same
\* reference has completed is refused as a duplicate reference at once,
\* changes no wallet and adds no transaction; with the two calls the first
\* two of the behaviour, the balance is the first amount alone.
C4_Precondition(p, q) ==
    /\ q < p
    /\ pc[p] = "idle" /\ pc'[p] # "idle" /\ req'[p].op = "fund"
    /\ req[q].op = "fund" /\ result[q] = "200"
    /\ req[q].user = req'[p].user /\ req[q].ref = req'[p].ref

C4_DuplicateFundRejected ==
    [][\A p, q \in Procs :
         C4_Precondition(p, q)
         => /\ pc'[p] = "done"
            /\ result'[p] = "400 reference used"
            /\ wallets' = wallets
            /\ transactions' = transactions
            /\ (q = 1 /\ p = 2 => wallets'[req[q].user].balance = req[q].amount)]_vars

\* C4 witness: the second fund call with the reference has been refused.
C4_Witness ==
    /\ req[1].op = "fund" /\ result[1] = "200"
    /\ req[2].op = "fund" /\ result[2] = "400 reference used"
    /\ req[1].user = req[2].user /\ req[1].ref = req[2].ref
    /\ req[1].amount # req[2].amount

\* C5: of two fund calls with the same reference at most one writes a wallet
\* balance.
C5_ConcurrentFundSingleCredit ==
    \A p, q \in Procs :
        (p # q /\ req[p].op = "fund" /\ req[q].op = "fund" /\ req[p].ref = req[q].ref)
        => ~(log[p].saved # {} /\ log[q].saved # {})

\* ------------------------------------------------------- scheduler claims
\* the task run of p ends with this step, normally or by an exception
RunEnds(p) == req[p].op = "run" /\ pc[p] # "done" /\ pc'[p] = "done"

\* the plan of u was selected by a run that started in the store `s` at `now`
WasDue(s, u, now) ==
    /\ s.plans[u].exists /\ s.plans[u].active
    /\ s.plans[u].next_disbursement <= now

Period(plan_type) == IF plan_type = "daily" THEN Day ELSE Week

TxsOf(txs, u) == {t \in txs : t.user = u}

\* C6: at the end of one run, every plan that was due and active when the run
\* started and whose wallet then held locked_balance >= amount_per_disbursement
\* has had that amount moved from locked_balance to balance, has exactly one
\* new 'disburse' transaction of that amount, and has next_disbursement one
\* day (daily) or seven days (weekly) after its previous value.
C6_DuePlanDisbursed ==
    [][\A p \in Procs : RunEnds(p) =>
         \A u \in Users :
            LET plan == pre.plans[u]
                w == pre.wallets[u]
                a == plan.amount_per_disbursement IN
            (WasDue(pre, u, req[p].now) /\ w.exists /\ w.locked_balance >= a)
            => /\ wallets'[u].locked_balance = w.locked_balance - a
               /\ wallets'[u].balance = w.balance + a
               /\ Cardinality({t \in TxsOf(transactions', u) \ pre.transactions :
                                 t.tx_type = "disburse" /\ t.amount = a}) = 1
               /\ TxsOf(transactions', u) \ pre.transactions
                    = {t \in transactions' : t.id \in log[p].inserted /\ t.user = u}
               /\ Cardinality(TxsOf(transactions', u) \ pre.transactions) = 1
               /\ plans'[u].next_disbursement
                    = plan.next_disbursement + Period(plan.plan_type)]_vars

\* C7: a run changes nothing for a plan that was due when it started and
\* whose wallet then held locked_balance < amount_per_disbursement: wallet,
\* transactions and plan are at the end of the run what they were at its
\* start, and the visit of that plan raises nothing, the loop goes on.
C7_Visit(p, u) ==
    /\ req[p].op = "run" /\ pc[p] = "run_next"
    /\ u \in queue[p] /\ queue'[p] = queue[p] \ {u} /\ wmem'[p].user = u
    /\ wallets[u].exists
    /\ wallets[u].locked_balance < pmem[p][u].amount_per_disbursement

C7_InsufficientPlanUntouched ==
    [][\A p \in Procs : \A u \in Users :
         /\ (RunEnds(p) /\ WasDue(pre, u, req[p].now) /\ pre.wallets[u].exists
               /\ pre.wallets[u].locked_balance < pre.plans[u].amount_per_disbursement)
            => /\ wallets'[u] = pre.wallets[u]
               /\ plans'[u] = pre.plans[u]
               /\ TxsOf(transactions', u) = TxsOf(pre.transactions, u)
         /\ C7_Visit(p, u)
            => /\ pc'[p] = "run_next"
               /\ result'[p] = "none"
               /\ store' = store]_vars

\* C7 witness: the loop has visited a due plan short of locked funds, skipped
\* it and gone on.
C7_Witness ==
    \E p \in Procs : \E u \in Users :
        /\ req[p].op = "run" /\ pc[p] = "run_next"
        /\ WasDue(pre, u, req[p].now) /\ u \notin queue[p]
        /\ pre.wallets[u].exists
        /\ pre.wallets[u].locked_balance < pre.plans[u].amount_per_disbursement
        /\ pre.plans[u].amount_per_disbursement > 0
        /\ wallets[u] = pre.wallets[u]

\* C8: every step of task runs, alone or concurrent, aborted or not, leaves
\* balance + locked_balance of every wallet what it was.
C8_FundsConserved ==
    [][\A u \in Users :
         wallets[u].exists =>
            wallets'[u].balance + wallets'[u].locked_balance
               = wallets[u].balance + wallets[u].locked_balance]_vars

\* C8 witness: two concurrent runs have both saved the same wallet.
C8_Witness ==
    \E p, q \in Procs :
        /\ p < q /\ p \in req[q].with
        /\ req[p].op = "run" /\ req[q].op = "run"
        /\ log[p].saved \cap log[q].saved # {}
        /\ \E u \in log[q].saved : wallets[u].balance > 0

\* C9: two concurrent runs do not both disburse the same plan for the same
\* due date.
C9_NoDoubleDisbursement ==
    \A p, q \in Procs :
        (p < q /\ p \in req[q].with /\ req[p].op = "run" /\ req[q].op = "run")
        => log[p].disbursed \cap log[q].disbursed = {}

\* C10: a run that directly follows a run at the same time now does not
\* select a plan the first run disbursed when that plan's previous
\* next_disbursement plus its period is later than now, and at its end has
\* changed neither that wallet, nor that user's transactions, nor that plan.
C10_Follows(p, q, u, now) ==
    /\ q = p + 1
    /\ req[p].op = "run" /\ IsFinished(p) /\ req[p].now = now
    /\ \E d \in 0..now : /\ <<u, d>> \in log[p].disbursed
                         /\ <<u, d>> \in log[p].advanced
                         /\ d + Period(plans[u].plan_type) > now

C10_SecondRunSkips ==
    [][\A p, q \in Procs : \A u \in Users :
         /\ (pc[q] = "idle" /\ pc'[q] # "idle" /\ req'[q].op = "run"
               /\ C10_Follows(p, q, u, clock))
            => u \notin queue'[q]
         /\ (RunEnds(q) /\ C10_Follows(p, q, u, req[q].now))
            => /\ wallets'[u] = pre.wallets[u]
               /\ plans'[u] = pre.plans[u]
               /\ TxsOf(transactions', u) = TxsOf(pre.transactions, u)
               /\ u \notin log'[q].saved
               /\ \A d \in 0..req[q].now : <<u, d>> \notin log'[q].advanced]_vars

\* C10 witness: the second of two runs at the same time has ended after the
\* first disbursed a plan.
C10_Witness ==
    /\ req[1].op = "run" /\ req[2].op = "run" /\ req[1].now = req[2].now
    /\ IsFinished(1) /\ IsFinished(2)
    /\ log[1].advanced # {} /\ log[2].advanced = {}
    /\ result[2] = "ok"

\* ------------------------------------------------------ atomicity claims
\* C11: after a fund call has ended, with a response or with an exception at
\* any step, it has written the credited balance if and only if it has
\* recorded its fund transaction.
C11_FundAllOrNothing ==
    \A p \in Procs :
        (req[p].op = "fund" /\ IsFinished(p))
        => (log[p].saved # {} <=> log[p].inserted # {})

\* the users for whose plan the run p has saved the wallet, inserted the
\* 'disburse' transaction, saved the advanced plan
Transferred(p) == log[p].saved
Recorded(p) == {t.user : t \in {x \in transactions : x.id \in log[p].inserted}}
Advanced(p) == {x[1] : x \in log[p].advanced}

\* C12: whenever a run is between two plans or has ended, also by an
\* exception of the insert or of the plan save, every plan it has processed
\* shows the transfer, the transaction and the advance, or none of the three.
C12_PlanStepAtomic ==
    \A p \in Procs :
        (req[p].op = "run" /\ pc[p] \in {"run_next", "done"})
        => /\ Transferred(p) = Recorded(p)
           /\ Recorded(p) = Advanced(p)

\* ---------------------------------------------------- concurrency claims
\* the transactions the process p has inserted for the user u
InsertedBy(p, u) == {t \in transactions : t.id \in log[p].inserted /\ t.user = u}

\* p and q were under way at the same time
Overlap(p, q) == p \in req[q].with \/ q \in req[p].with

\* C13: when a fund or confirm call crediting a wallet a positive amount and a task run
\* disbursing to the same wallet have run concurrently, both have succeeded
\* and nothing else has run, the balance is the initial balance plus the
\* credited amount plus the disbursed amount, and locked_balance the initial
\* value minus the disbursed amount.
C13_NoLostUpdate ==
    \A p, q \in Procs : \A u \in Users :
        (/\ req[p].op \in {"fund", "confirm"} /\ req[p].user = u /\ result[p] = "200"
         /\ req[p].amount > 0
         /\ req[q].op = "run" /\ result[q] = "ok" /\ InsertedBy(q, u) # {}
         /\ Overlap(p, q)
         /\ \A o \in Procs \ {p, q} : pc[o] = "idle")
        => \A t \in InsertedBy(q, u) :
              /\ wallets[u].balance = initial[u].balance + req[p].amount + t.amount
              /\ wallets[u].locked_balance = initial[u].locked_balance - t.amount

\* ----------------------------------------------------- validation claims
\* C14: a fund call with amount <= 0 is refused: it does not answer 200,
\* writes no wallet and records no transaction.
C14_NonPositiveFundRejected ==
    \A p \in Procs :
        (req[p].op = "fund" /\ req[p].amount <= 0 /\ IsFinished(p))
        => /\ result[p] # "200"
           /\ log[p].saved = {}
           /\ log[p].inserted = {}

\* ------------------------------------------------- error handling claims
\* the confirm call of p got a reply of the gateway that is no success
Unverified(r) == r.op = "confirm" /\ r.reply # "success"

\* C15: a confirm call whose gateway call raises, returns a false status or
\* reports a payment status other than 'success' ends at once with an error
\* and leaves every table as it is; it never writes a wallet or a transaction.
C15_ConfirmOnlyAfterSuccess ==
    [][\A p \in Procs :
         /\ (pc[p] = "idle" /\ pc'[p] # "idle" /\ Unverified(req'[p]))
            => /\ pc'[p] = "done"
               /\ result'[p] = GatewayError(req'[p].reply)
               /\ result'[p] # "200"
               /\ store' = store
         /\ (pc[p] # "idle" /\ Unverified(req[p]))
            => /\ pc'[p] = "done"
               /\ log'[p] = NoLog]_vars

\* C15 witness: one confirm call has ended on a payment that is no success,
\* another on an exception of the gateway call, a wallet being there to credit.
C15_Witness ==
    \E p, q \in Procs : \E u \in Users :
        /\ req[p].op = "confirm" /\ req[p].reply = "not_success"
        /\ result[p] = "400 not_success"
        /\ req[q].op = "confirm" /\ req[q].reply = "raised"
        /\ result[q] = "500 RequestException"
        /\ req[p].user = u /\ wallets[u].exists

\* C16: when a run ends on a failure of one plan, every plan that was due
\* when the run started and whose wallet then held the funds has been
\* disbursed by that run.
C16_BatchIsolation ==
    [][\A p \in Procs :
         (RunEnds(p) /\ result'[p] # "ok")
         => \A u \in Users :
               (/\ WasDue(pre, u, req[p].now)
                /\ pre.wallets[u].exists
                /\ pre.wallets[u].locked_balance >= pre.plans[u].amount_per_disbursement)
               => <<u, pre.plans[u].next_disbursement>> \in log[p].disbursed]_vars

\* ------------------------------------------------------------ plan claims
\* a task run is under way
Running(p) == req[p].op = "run" /\ pc[p] \notin {"idle", "done"}

\* C17: with requests and task runs one at a time, a step of a task run
\* changes of a stored plan nothing but next_disbursement, and that by
\* exactly one day for a daily and one week for a weekly plan.
C17_AdvanceByPeriod ==
    [][\A p \in Procs : Running(p) =>
         \A u \in Users :
            plans'[u] # plans[u]
            => /\ plans'[u] = [plans[u] EXCEPT
                                 !.next_disbursement = @ + Period(plans[u].plan_type)]
               /\ plans'[u].next_disbursement > plans[u].next_disbursement]_vars

\* C17 witness: one run has advanced a daily plan by a day and a weekly plan
\* by a week.
C17_Witness ==
    \E p \in Procs : \E u, v \in Users :
        /\ req[p].op = "run"
        /\ <<u, 0>> \in log[p].advanced /\ <<v, 0>> \in log[p].advanced
        /\ plans[u].plan_type = "daily" /\ plans[u].next_disbursement = Day
        /\ plans[v].plan_type = "weekly" /\ plans[v].next_disbursement = Week

\* C18: every stored plan has amount_per_disbursement > 0 and a plan_type
\* among daily and weekly.
C18_PlanValid ==
    \A u \in Users :
        plans[u].exists
        => /\ plans[u].amount_per_disbursement > 0
           /\ plans[u].plan_type \in PlanTypes

\* ---------------------------------------------------------- ledger claims
\* C19: no step of a fund, confirm, plan-update or task run removes a
\* recorded transaction or changes one of its fields; a confirm that finds
\* its transaction recorded leaves the table as it is.
C19_LedgerAppendOnly ==
    [][/\ transactions \subseteq transactions'
       /\ \A p \in Procs :
            (/\ pc[p] = "confirm_get_or_create_tx" /\ pc'[p] = "done"
             /\ ReferenceTaken(transactions, req[p].ref))
            => transactions' = transactions]_vars

\* C19 witness: a confirm call has credited the wallet and found the
\* transaction of its reference already recorded.
C19_Witness ==
    \E p \in Procs :
        /\ req[p].op = "confirm" /\ result[p] = "200"
        /\ log[p].saved # {} /\ log[p].inserted = {}
        /\ \E t \in transactions : t.reference = req[p].ref /\ t.user = req[p].user

\* ----------------------------------------------------------- frame claims
\* C20: at the end of a run, for every plan that was inactive or had
\* next_disbursement later than now when the run started, the owner's wallet,
\* the owner's transactions and the plan are what they were at the start.
C20_OnlyDuePlansTouched ==
    [][\A p \in Procs : RunEnds(p) =>
         \A u \in Users :
            (pre.plans[u].exists /\ ~WasDue(pre, u, req[p].now))
            => /\ wallets'[u] = pre.wallets[u]
               /\ TxsOf(transactions', u) = TxsOf(pre.transactions, u)
               /\ plans'[u] = pre.plans[u]
               /\ u \notin log[p].saved]_vars

\* C20 witness: a run has gone through its plans, disbursing one, while an
\* inactive plan with the date reached and the funds locked was left out.
C20_Witness ==
    \E p \in Procs : \E u, v \in Users :
        /\ req[p].op = "run" /\ pc[p] = "run_next" /\ queue[p] = {}
        /\ pre.plans[u].exists /\ ~pre.plans[u].active
        /\ pre.plans[u].next_disbursement <= req[p].now
        /\ pre.wallets[u].exists
        /\ pre.wallets[u].locked_balance >= pre.plans[u].amount_per_disbursement
        /\ v # u /\ v \in log[p].saved

\* ----------------------------------------------------------- retry claims
\* the run p has skipped the plan of u for want of locked funds, and no run
\* between p and q has disbursed it since
SkippedBefore(p, q, u) ==
    /\ p < q /\ req[p].op = "run" /\ IsFinished(p)
    /\ u \in log[p].skipped
    /\ \A r \in Procs : (p < r /\ r < q) => u \notin log[r].saved

\* C21: a plan that a run skipped for want of locked funds is selected by
\* every later run while it is active, and a later run that starts with
\* locked_balance >= amount_per_disbursement in the wallet disburses it.
C21_SkippedPlanRetried ==
    [][\A p, q \in Procs : \A u \in Users :
         /\ (/\ pc[q] = "idle" /\ pc'[q] # "idle" /\ req'[q].op = "run"
             /\ SkippedBefore(p, q, u) /\ plans[u].active)
            => u \in queue'[q]
         /\ (/\ RunEnds(q) /\ SkippedBefore(p, q, u) /\ pre.plans[u].active
             /\ pre.wallets[u].locked_balance >= pre.plans[u].amount_per_disbursement)
            => /\ u \in log[q].saved
               /\ u \in Advanced(q)]_vars

\* ------------------------------------------------------- initiate claims
\* C22: an initiate call, whatever its amount and whatever the gateway
\* answers, ends in its one step, leaves every wallet, plan and transaction
\* as it is and never writes afterwards.
C22_InitiateLeavesLedger ==
    [][\A p \in Procs :
         /\ (pc[p] = "idle" /\ pc'[p] # "idle" /\ req'[p].op = "initiate")
            => /\ pc'[p] = "done"
               /\ wallets' = wallets /\ transactions' = transactions
               /\ store' = store
         /\ req[p].op = "initiate"
            => /\ pc'[p] = "done"
               /\ log'[p] = NoLog]_vars

\* C22 witness: the gateway has accepted one initiate call and failed
\* another, of a user with a wallet.
C22_Witness ==
    \E p, q \in Procs :
        /\ req[p].op = "initiate" /\ req[p].reply = "accepted" /\ result[p] = "200"
        /\ req[q].op = "initiate" /\ req[q].reply = "raised" /\ result[q] = "500 Exception"
        /\ wallets[req[p].user].exists

\* --------------------------------------------------------- wallet claims
\* the fund or confirm call of p makes its get_or_create of the wallet
GetsWallet(p) ==
    /\ pc[p] \in {"fund_get_wallet", "confirm_get_wallet"}
    /\ pc'[p] # pc[p]

\* C23: the wallet table holds one row per user at most, and get_or_create
\* in fund and confirm returns the row of a user who has one, with its
\* balance and locked_balance, and writes nothing; for a user who has none
\* it creates the empty row and leaves the other rows alone.
C23_GetOrCreateIdempotent ==
    [][\A p \in Procs : GetsWallet(p) =>
         LET u == req[p].user IN
           /\ DOMAIN wallets' = Users
           /\ wmem'[p].user = u
           /\ wallets'[u].exists
           /\ \A v \in Users \ {u} : wallets'[v] = wallets[v]
           /\ wallets[u].exists
              => /\ wallets'[u] = wallets[u]
                 /\ wmem'[p].balance = wallets[u].balance
                 /\ wmem'[p].locked_balance = wallets[u].locked_balance
           /\ ~wallets[u].exists
              => wallets'[u] = WalletRow(0, 0)]_vars

\* C23 witness: get_or_create has returned a wallet holding a balance and
\* locked funds.
C23_Witness ==
    \E p \in Procs :
        /\ pc[p] \in {"fund_save", "confirm_save"}
        /\ wmem[p].balance > 0 /\ wmem[p].locked_balance > 0
        /\ wallets[req[p].user] = WalletRow(wmem[p].balance, wmem[p].locked_balance)

\* C24: a confirm call that answers 200 for a verified reference no
\* transaction held when it started has raised the caller's balance by the
\* gateway's minor-unit amount (hundredths of the ledger's unit), left
\* locked_balance as it was and recorded one 'fund' transaction with that
\* amount, that reference and status 'success', the only one of the reference.
C24_ConfirmCreditsGatewayAmount ==
    [][\A p \in Procs :
         (/\ req[p].op = "confirm" /\ pc[p] # "done" /\ pc'[p] = "done"
          /\ result'[p] = "200"
          /\ ~ReferenceTaken(pre.transactions, req[p].ref))
         => LET u == req[p].user IN
              /\ wallets'[u].balance - pre.wallets[u].balance = req[p].kobo
              /\ wallets'[u].locked_balance = pre.wallets[u].locked_balance
              /\ {t \in transactions' : t.reference = req[p].ref}
                   = {t \in transactions' \ pre.transactions :
                        /\ t.user = u /\ t.tx_type = "fund"
                        /\ t.amount = req[p].kobo /\ t.status = "success"
                        /\ t.id \in log'[p].inserted}
              /\ Cardinality({t \in transactions' : t.reference = req[p].ref}) = 1]_vars

\* C24 witness: a confirm call has answered 200 and recorded its transaction.
C24_Witness ==
    \E p \in Procs :
        /\ req[p].op = "confirm" /\ result[p] = "200" /\ req[p].kobo > 0
        /\ log[p].inserted # {}
        /\ wallets[req[p].user].balance = req[p].kobo

\* ---------------------------------------------------------- ledger sums
RECURSIVE SumAmounts(_)
SumAmounts(txs) ==
    IF txs = {} THEN 0
    ELSE LET t == CHOOSE x \in txs : TRUE IN t.amount + SumAmounts(txs \ {t})

\* no request or task run is under way
Quiet == \A p \in Procs : pc[p] \in {"idle", "done"}

\* every wallet was empty or absent before the first request or task run
StartedEmpty == \A u \in Users : initial[u].balance = 0 /\ initial[u].locked_balance = 0

\* the task runs that have saved a transfer to the wallet of u
Transfers(u) == {p \in Procs : req[p].op = "run" /\ u \in log[p].saved}

\* C25: every recorded transaction has amount > 0.
C25_PositiveTransactionAmounts ==
    \A t \in transactions : t.amount > 0

\* C26: between operations run one at a time from empty wallets, each user's
\* balance + locked_balance is the sum of the amounts of that user's 'fund'
\* transactions, and the transfers saved to the wallet are as many as that
\* user's 'disburse' transactions.
C26_WalletAgreesWithLedger ==
    (Quiet /\ StartedEmpty)
    => \A u \in Users :
          /\ wallets[u].balance + wallets[u].locked_balance
               = SumAmounts({t \in TxsOf(transactions, u) : t.tx_type = "fund"})
          /\ Cardinality(Transfers(u))
               = Cardinality({t \in TxsOf(transactions, u) : t.tx_type = "disburse"})

\* C27: when two users have each confirmed the same verified reference and
\* nothing else has run, the balances of all wallets together have grown by
\* the gateway amount once at most, and the balance of a user without a
\* 'fund' transaction of that reference is what it was.
C27_OneReferenceOneCredit ==
    \A p, q \in Procs :
        (/\ p < q /\ IsFinished(p) /\ IsFinished(q)
         /\ Verified(p) /\ Verified(q)
         /\ req[p].user # req[q].user /\ req[p].ref = req[q].ref
         /\ \A o \in Procs \ {p, q} : pc[o] = "idle")
        => /\ SumAmounts({[user |-> u, amount |-> wallets[u].balance - initial[u].balance] :
                            u \in Users}) <= req[p].kobo
           /\ \A u \in Users :
                 {t \in FundTxs(req[p].ref) : t.user = u} = {}
                 => wallets[u].balance = initial[u].balance

====
